---------------------------- MODULE Spec2Model ----------------------------
(***************************************************************************)
(* Model of the `cog` command line front end (src/bin/cog.rs) of           *)
(* cocogitto: argument acceptance, and the `main` handlers of the bump,    *)
(* verify, log and changelog sub-commands.  The library functions that     *)
(* main calls (create_version, commit::verify, get_log, the changelog      *)
(* renderer) live outside src/bin/cog.rs; they are modelled from their     *)
(* documented contract and are marked as such where they are defined.      *)
(***************************************************************************)
EXTENDS Integers, Sequences, FiniteSets, TLC

VARIABLES
    pc,          \* position of main: "start", a step of a handler, or "done"
    cli,         \* the parsed command line (Cli enum value)
    exit,        \* "running", "ok", "panic" or the error main returned
    stdout,      \* what main has written: <<>> (nothing) or <<text>>
    increment,   \* Bump: the VersionIncrement handed to create_version
    current,     \* Bump: the repository's current version
    records,     \* Bump: the commit records since the latest tag
    decision,    \* Bump: the VersionIncrementDecision of the version engine
    newVersion,  \* Bump: <<>> or <<the version that was created>>
    author,      \* Verify: the Option<String> handed to commit::verify
    verified,    \* Verify: <<>> or <<the record or violation produced>>
    filters,     \* Log: the Vec<CommitFilter> handed to get_log
    commits,     \* Log: the repository's log entries (records and violations)
    content,     \* Log/Changelog: <<>> or <<the computed text>>
    settings,    \* Changelog: SETTINGS.to_changelog_template(), once read
    template     \* Changelog: <<>> or <<the Template used for rendering>>

vars == <<pc, cli, exit, stdout, increment, current, records, decision,
          newVersion, author, verified, filters, commits, content, settings,
          template>>

bumpVars == <<increment, current, records, decision, newVersion>>
verifyVars == <<author, verified>>
logVars == <<filters, commits>>
changelogVars == <<settings, template>>

(***************************************************************************)
(* Bounds of the model.                                                    *)
(***************************************************************************)
MaxCommits == 2
MaxLogEntries == 2

(***************************************************************************)
(* Option<T>: None is the empty sequence, Some(x) is <<x>>.                *)
(***************************************************************************)
None == <<>>
Some(x) == <<x>>
IsSome(o) == o # <<>>
Unwrap(o) == o[1]
SeqsUpTo(S, n) == UNION {[1..k -> S] : k \in 0..n}
Range(s) == {s[i] : i \in DOMAIN s}

(***************************************************************************)
(* Versions.                                                               *)
(***************************************************************************)
V(ma, mi, pa, pre, build) ==
    [major |-> ma, minor |-> mi, patch |-> pa, pre |-> pre, build |-> build]

CurrentVersions ==
    {V(1, 2, 3, "", ""), V(0, 1, 0, "alpha", "b1"), V(2, 0, 9, "rc1", "")}

\* Strings given to --version, and what parsing them as a semver yields.
VersionArgs == {"2.0.0", "3.1.4-rc+b7", "garbage"}
PreArgs == {"beta"}

ParseVersion(s) ==
    CASE s = "2.0.0" -> Some(V(2, 0, 0, "", ""))
      [] s = "3.1.4-rc+b7" -> Some(V(3, 1, 4, "rc", "b7"))
      [] OTHER -> None

(***************************************************************************)
(* Commit records as the version engine sees them.                         *)
(***************************************************************************)
BumpTypes == {"feat", "fix", "perf", "chore"}
BumpRecords == [commit_type : BumpTypes, breaking : BOOLEAN]


(***************************************************************************)
(* The command lines clap can hand to main.  hook_profile is passed        *)
(* through to create_version untouched and is left out.                    *)
(***************************************************************************)
BumpArgs ==
    [cmd : {"Bump"},
     version : {None} \cup {Some(s) : s \in VersionArgs},
     auto : BOOLEAN, major : BOOLEAN, minor : BOOLEAN, patch : BOOLEAN,
     pre : {None} \cup {Some(s) : s \in PreArgs}]

\* clap's required_unless_one: the argument must be present unless at least
\* one of the named others is.
RequiredUnlessOne(present, others) == present \/ (\E o \in others : o)

BumpArgsAccepted(c) ==
    /\ RequiredUnlessOne(IsSome(c.version), {c.auto, c.major, c.minor, c.patch})
    /\ RequiredUnlessOne(c.auto, {IsSome(c.version), c.major, c.minor, c.patch})
    /\ RequiredUnlessOne(c.major, {IsSome(c.version), c.auto, c.minor, c.patch})
    /\ RequiredUnlessOne(c.minor, {IsSome(c.version), c.auto, c.major, c.patch})
    /\ RequiredUnlessOne(c.patch, {IsSome(c.version), c.auto, c.major, c.minor})

(***************************************************************************)
(* Cli::Bump, increment selection.                                         *)
(***************************************************************************)
Manual(s) == [tag |-> "Manual", version |-> s]
Auto == [tag |-> "Auto"]
Major == [tag |-> "Major"]
Minor == [tag |-> "Minor"]
Patch == [tag |-> "Patch"]
Unreachable == [tag |-> "unreachable"]
NoIncrement == [tag |-> "unset"]

\* SelectIncrement with the major arm placed before the auto arm.
SelectIncrement_MajorFirst(c) ==
    IF IsSome(c.version) THEN Manual(Unwrap(c.version))
    ELSE IF c.major THEN Major
    ELSE IF c.auto THEN Auto
    ELSE IF c.minor THEN Minor
    ELSE IF c.patch THEN Patch
    ELSE Unreachable

\* SelectIncrement with the patch arm placed before the minor arm.
SelectIncrement_PatchBeforeMinor(c) ==
    IF IsSome(c.version) THEN Manual(Unwrap(c.version))
    ELSE IF c.auto THEN Auto
    ELSE IF c.major THEN Major
    ELSE IF c.patch THEN Patch
    ELSE IF c.minor THEN Minor
    ELSE Unreachable

SelectIncrement(c) ==
    IF IsSome(c.version) THEN Manual(Unwrap(c.version))
    ELSE IF c.auto THEN Auto
    ELSE IF c.major THEN Major
    ELSE IF c.minor THEN Minor
    ELSE IF c.patch THEN Patch
    ELSE Unreachable

\* PreArgument handing a pre-release on whatever the command line says.
PreArgument_Always(c) == Some("beta")

\* pre.as_deref(): the pre-release argument handed to create_version.
PreArgument(c) == c.pre

(***************************************************************************)
(* The version engine, from its contract (next_version).                   *)
(***************************************************************************)
Bump(v) == [kind |-> "Bump", version |-> v]
NoApplicableCommits == [kind |-> "NoApplicableCommits"]
InvalidVersion == [kind |-> "Error"]
NoDecision == [kind |-> "unset"]

MajorBump(v) == V(v.major + 1, 0, 0, "", "")
MinorBump(v) == V(v.major, v.minor + 1, 0, "", "")
PatchBump(v) == V(v.major, v.minor, v.patch + 1, "", "")

\* 3: breaking, 2: feat, 1: fix or perf, 0: nothing that bumps.
RecordLevel(r) ==
    IF r.breaking THEN 3
    ELSE IF r.commit_type = "feat" THEN 2
    ELSE IF r.commit_type \in {"fix", "perf"} THEN 1
    ELSE 0

RECURSIVE HighestLevel(_)
HighestLevel(recs) ==
    IF recs = <<>> THEN 0
    ELSE LET rest == HighestLevel(Tail(recs))
             here == RecordLevel(Head(recs))
         IN IF here > rest THEN here ELSE rest

\* ManualTarget: the override of next_version, None for an automatic bump.
ManualTarget(inc) == IF inc.tag = "Auto" THEN None ELSE Some(inc)

next_version(cur, recs, override) ==
    IF IsSome(override)
    THEN LET t == Unwrap(override) IN
         CASE t.tag = "Manual" ->
                  IF IsSome(ParseVersion(t.version))
                  THEN Bump(Unwrap(ParseVersion(t.version)))
                  ELSE InvalidVersion
           [] t.tag = "Major" -> Bump(MajorBump(cur))
           [] t.tag = "Minor" -> Bump(MinorBump(cur))
           [] OTHER -> Bump(PatchBump(cur))
    ELSE LET l == HighestLevel(recs) IN
         CASE l = 3 -> Bump(MajorBump(cur))
           [] l = 2 -> Bump(MinorBump(cur))
           [] l = 1 -> Bump(PatchBump(cur))
           [] OTHER -> NoApplicableCommits

\* create_version: the version engine's decision, then the pre-release
\* argument ("Set the pre-release version") applied to the bumped version.
WithPre(v, pre) == IF IsSome(pre) THEN [v EXCEPT !.pre = Unwrap(pre)] ELSE v

CreatedVersion(d, pre) ==
    IF d.kind = "Bump" THEN Some(WithPre(d.version, pre)) ELSE None

(***************************************************************************)
(* main                                                                    *)
(***************************************************************************)
NoCli == [cmd |-> "none"]

Init ==
    /\ pc = "start"
    /\ cli = NoCli
    /\ exit = "running"
    /\ stdout = None
    /\ increment = NoIncrement
    /\ current = None
    /\ records = <<>>
    /\ decision = NoDecision
    /\ newVersion = None
    /\ author = None
    /\ verified = None
    /\ filters = <<>>
    /\ commits = <<>>
    /\ content = None
    /\ settings = None
    /\ template = None

\* An early return of main with an error (the ? operator).
Fail(err) ==
    /\ pc' = "done"
    /\ exit' = err

\* Cli::from_args() for `cog bump`.
ParseBump ==
    /\ pc = "start"
    /\ \E c \in BumpArgs :
          /\ BumpArgsAccepted(c)
          /\ cli' = c
    /\ pc' = "bump_get"
    /\ UNCHANGED <<exit, stdout, bumpVars, verifyVars, logVars, content, changelogVars>>

\* let mut cocogitto = CocoGitto::get()?;
BumpGet ==
    /\ pc = "bump_get"
    /\ \E ok \in BOOLEAN :
          IF ok THEN pc' = "bump_select" /\ UNCHANGED exit
          ELSE Fail("RepositoryError")
    /\ UNCHANGED <<cli, stdout, bumpVars, verifyVars, logVars, content, changelogVars>>

\* let increment = match version { ... };
BumpSelect ==
    /\ pc = "bump_select"
    /\ increment' = SelectIncrement(cli)
    /\ IF increment'.tag = "unreachable"
       THEN pc' = "done" /\ exit' = "panic"
       ELSE pc' = "bump_create" /\ UNCHANGED exit
    /\ UNCHANGED <<cli, stdout, current, records, decision, newVersion,
                   verifyVars, logVars, content, changelogVars>>

\* cocogitto.create_version(increment, pre.as_deref(), hook_profile.as_deref())?
\* `fails` is a failure of create_version outside the version engine (git,
\* hooks, the changelog file).
BumpCreateVersion ==
    /\ pc = "bump_create"
    /\ \E cur \in CurrentVersions, recs \in SeqsUpTo(BumpRecords, MaxCommits),
          fails \in BOOLEAN :
          LET d == next_version(cur, recs, ManualTarget(increment)) IN
          /\ current' = Some(cur)
          /\ records' = recs
          /\ decision' = d
          /\ IF fails THEN newVersion' = None /\ exit' = "BumpError"
             ELSE IF d.kind = "Bump"
             THEN /\ newVersion' = CreatedVersion(d, PreArgument(cli))
                  /\ exit' = "ok"
             ELSE /\ newVersion' = None
                  /\ exit' = IF d.kind = "Error" THEN "InvalidVersion"
                             ELSE "NoApplicableCommits"
    /\ pc' = "done"
    /\ UNCHANGED <<cli, stdout, increment, verifyVars, logVars, content, changelogVars>>

(***************************************************************************)
(* Cli::Verify                                                             *)
(***************************************************************************)
\* A raw commit message, as the pieces of its header line and its footer.
Messages ==
    [type : {"feat", "fix", "nope"}, scope : {"absent", "empty", "api"},
     bang : BOOLEAN, colon : BOOLEAN, description : {"", "add x"},
     footer : {"", "BREAKING CHANGE: y"}]

RecognizedTypes == {"feat", "fix", "chore", "docs", "style", "refactor",
                    "perf", "test", "build", "ci", "revert"}

Violation(reason) == [kind |-> "violation", reason |-> reason]

\* parse: one raw message to a record or a violation.
parse(m) ==
    IF ~m.colon THEN Violation("MalformedHeader")
    ELSE IF m.type \notin RecognizedTypes THEN Violation("UnknownType")
    ELSE IF m.scope = "empty" THEN Violation("EmptyScope")
    ELSE IF m.description = "" THEN Violation("MissingDescription")
    ELSE [kind |-> "record", commit_type |-> m.type,
          scope |-> IF m.scope = "absent" THEN None ELSE Some(m.scope),
          breaking |-> m.bang \/ m.footer # "",
          description |-> m.description]

VerifyArgs == [cmd : {"Verify"}, message : Messages]

\* Cli::from_args() for `cog verify`.
ParseVerify ==
    /\ pc = "start"
    /\ \E c \in VerifyArgs : cli' = c
    /\ pc' = "verify_author"
    /\ UNCHANGED <<exit, stdout, bumpVars, verifyVars, logVars, content, changelogVars>>

\* CocoGitto::get().map(|cogito| cogito.get_committer().unwrap()).ok()
\* Some(name) with a repository and a committer, None without a repository,
\* and a panic of unwrap() with a repository whose committer cannot be read.
CommitterOf(repoOk, committerOk) ==
    IF ~repoOk THEN [panics |-> FALSE, author |-> None]
    ELSE IF committerOk THEN [panics |-> FALSE, author |-> Some("Tom")]
    ELSE [panics |-> TRUE, author |-> None]

VerifyAuthor ==
    /\ pc = "verify_author"
    /\ \E repoOk \in BOOLEAN, committerOk \in BOOLEAN :
          LET a == CommitterOf(repoOk, committerOk) IN
          IF a.panics
          THEN pc' = "done" /\ exit' = "panic" /\ UNCHANGED author
          ELSE pc' = "verify_message" /\ author' = a.author /\ UNCHANGED exit
    /\ UNCHANGED <<cli, stdout, bumpVars, verified, logVars, content, changelogVars>>

\* commit::verify(author, &message)?;
VerifyMessage ==
    /\ pc = "verify_message"
    /\ verified' = Some(parse(cli.message))
    /\ pc' = "done"
    /\ exit' = IF parse(cli.message).kind = "record" THEN "ok" ELSE "VerifyError"
    /\ UNCHANGED <<cli, stdout, bumpVars, author, logVars, content, changelogVars>>

(***************************************************************************)
(* Cli::Log                                                                *)
(***************************************************************************)
LogArgs ==
    [cmd : {"Log"},
     breaking_change : BOOLEAN,
     typ : {None, Some(<<>>), Some(<<"feat">>), Some(<<"fix", "chore">>)},
     author : {None, Some(<<"Tom">>)},
     scope : {None, Some(<<"api">>), Some(<<"cli", "api">>)},
     no_error : BOOLEAN]

\* commit_type.as_str().into(): the CommitType of a type name.
CommitTypeFrom(name) ==
    CASE name = "feat" -> "Feature"
      [] name = "fix" -> "BugFix"
      [] name = "chore" -> "Chore"
      [] OTHER -> "Custom:" \o name

Type(t) == [filter |-> "Type", value |-> t]
Scope(sc) == [filter |-> "Scope", value |-> sc]
Author(a) == [filter |-> "Author", value |-> a]
BreakingChange == [filter |-> "BreakingChange"]
NoError == [filter |-> "NoError"]

TypeFilters(c) ==
    IF IsSome(c.typ)
    THEN [i \in DOMAIN Unwrap(c.typ) |-> Type(CommitTypeFrom(Unwrap(c.typ)[i]))]
    ELSE <<>>
ScopeFilters(c) ==
    IF IsSome(c.scope)
    THEN [i \in DOMAIN Unwrap(c.scope) |-> Scope(Unwrap(c.scope)[i])]
    ELSE <<>>
AuthorFilters(c) ==
    IF IsSome(c.author)
    THEN [i \in DOMAIN Unwrap(c.author) |-> Author(Unwrap(c.author)[i])]
    ELSE <<>>
BreakingFilter(c) == IF c.breaking_change THEN <<BreakingChange>> ELSE <<>>
NoErrorFilter(c) == IF c.no_error THEN <<NoError>> ELSE <<>>

\* BuildFilters without the scope arguments.
BuildFilters_NoScope(c) ==
    TypeFilters(c) \o AuthorFilters(c) \o BreakingFilter(c) \o NoErrorFilter(c)

\* BuildFilters pushing BreakingChange for the no_error flag.
BuildFilters_NoErrorAsBreaking(c) ==
    TypeFilters(c) \o ScopeFilters(c) \o AuthorFilters(c)
        \o BreakingFilter(c)
        \o (IF c.no_error THEN <<BreakingChange>> ELSE <<>>)

\* let mut filters = vec![]; ... let filters = CommitFilters(filters);
BuildFilters(c) ==
    TypeFilters(c) \o ScopeFilters(c) \o AuthorFilters(c)
        \o BreakingFilter(c) \o NoErrorFilter(c)

\* The entries of the repository's log: parsed records and violations.
LogRecords ==
    [kind : {"record"}, commit_type : {"Feature", "Chore"},
     scope : {None, Some("api")}, author : {"Tom", "Ann"}, breaking : BOOLEAN]
LogEntries == LogRecords \cup {Violation("MalformedHeader")}

\* CommitFilters: the values given for one kind of filter.
FilterValues(fs, kind) ==
    {fs[i].value : i \in {j \in DOMAIN fs : fs[j].filter = kind}}
HasFilter(fs, kind) == \E i \in DOMAIN fs : fs[i].filter = kind

\* filter: a record is kept iff it passes every kind of predicate supplied,
\* the values of one kind being alternatives.
IsMatch(fs, r) ==
    /\ HasFilter(fs, "Type") => r.commit_type \in FilterValues(fs, "Type")
    /\ HasFilter(fs, "Scope") =>
           IsSome(r.scope) /\ Unwrap(r.scope) \in FilterValues(fs, "Scope")
    /\ HasFilter(fs, "Author") => r.author \in FilterValues(fs, "Author")
    /\ HasFilter(fs, "BreakingChange") => r.breaking

IsRecord(e) == e.kind = "record"
IsViolation(e) == e.kind = "violation"

\* get_log: the kept records in input order, and the violations, which are
\* reported unless the filters carry NoError.
get_log(entries, fs) ==
    [records |-> SelectSeq(entries, LAMBDA e : IsRecord(e) /\ IsMatch(fs, e)),
     violations |-> IF HasFilter(fs, "NoError") THEN <<>>
                    ELSE SelectSeq(entries, IsViolation)]

\* Cli::from_args() for `cog log`.
ParseLog ==
    /\ pc = "start"
    /\ \E c \in LogArgs : cli' = c
    /\ pc' = "log_get"
    /\ UNCHANGED <<exit, stdout, bumpVars, verifyVars, logVars, content, changelogVars>>

\* let cocogitto = CocoGitto::get()?;
LogGet ==
    /\ pc = "log_get"
    /\ \E ok \in BOOLEAN :
          IF ok THEN pc' = "log_output" /\ UNCHANGED exit
          ELSE Fail("RepositoryError")
    /\ UNCHANGED <<cli, stdout, bumpVars, verifyVars, logVars, content, changelogVars>>

\* let mut output = Output::builder()...build()?;
LogOutput ==
    /\ pc = "log_output"
    /\ \E ok \in BOOLEAN :
          IF ok THEN pc' = "log_filters" /\ UNCHANGED exit
          ELSE Fail("OutputError")
    /\ UNCHANGED <<cli, stdout, bumpVars, verifyVars, logVars, content, changelogVars>>

\* let mut filters = vec![]; ... let filters = CommitFilters(filters);
LogFilters ==
    /\ pc = "log_filters"
    /\ filters' = BuildFilters(cli)
    /\ pc' = "log_get_log"
    /\ UNCHANGED <<cli, exit, stdout, bumpVars, verifyVars, commits, content, changelogVars>>

\* let content = cocogitto.get_log(filters)?;
LogGetLog ==
    /\ pc = "log_get_log"
    /\ \E entries \in SeqsUpTo(LogEntries, MaxLogEntries), ok \in BOOLEAN :
          /\ commits' = entries
          /\ IF ok
             THEN /\ content' = Some(get_log(entries, filters))
                  /\ pc' = "log_write"
                  /\ UNCHANGED exit
             ELSE /\ Fail("LogError")
                  /\ UNCHANGED content
    /\ UNCHANGED <<cli, stdout, bumpVars, verifyVars, filters, changelogVars>>

\* output.handle()?.write_all(content.as_bytes()).context(...)?;
\* write_all may fail after part of the text has gone out.
Partial == [partial |-> TRUE]

LogWrite ==
    /\ pc = "log_write"
    /\ \E outcome \in {"handle_fails", "write_fails", "write_fails_midway", "ok"} :
          CASE outcome = "ok" -> stdout' = content /\ exit' = "ok"
            [] outcome = "write_fails_midway" ->
                   stdout' = Some(Partial) /\ exit' = "WriteError"
            [] OTHER -> UNCHANGED stdout /\ exit' = "WriteError"
    /\ pc' = "done"
    /\ UNCHANGED <<cli, bumpVars, verifyVars, logVars, content, changelogVars>>

(***************************************************************************)
(* Cli::Changelog                                                          *)
(***************************************************************************)
TemplateArgs == {"remote", "full_hash", "default", "my.tera", "missing.tera"}

ChangelogArgs ==
    [cmd : {"Changelog"},
     pattern : {None, Some("1.0.0..")},
     at : {None, Some("1.0.0")},
     template : {None} \cup {Some(t) : t \in TemplateArgs},
     remote : {None, Some("github.com")},
     owner : {None, Some("cocogitto")},
     repository : {None, Some("cog")}]

\* clap's required_if(arg, value): required when arg was given that value.
RequiredIf(present, arg, value) == arg = Some(value) => present

\* ChangelogArgsAccepted without the required_if rules.
ChangelogArgsAccepted_NoRequiredIf(c) == ~(IsSome(c.pattern) /\ IsSome(c.at))

ChangelogArgsAccepted(c) ==
    /\ ~(IsSome(c.pattern) /\ IsSome(c.at))
    /\ RequiredIf(IsSome(c.remote), c.template, "remote")
    /\ RequiredIf(IsSome(c.owner), c.template, "remote")
    /\ RequiredIf(IsSome(c.repository), c.template, "remote")

\* RemoteContext::new(remote, repository, owner)
RemoteContext(remote, repository, owner) ==
    [remote |-> remote, repository |-> repository, owner |-> owner]

Template(kind, context) == [kind |-> kind, context |-> context]
CustomKinds == {"Custom:my.tera", "Custom:conf.tera"}
DefaultTemplate == Template("Default", None)

\* What SETTINGS.to_changelog_template() can return.
SettingsTemplates ==
    {None,
     Some(Template("FullHash", None)),
     Some(Template("Remote", None)),
     Some(Template("Remote",
                   Some(RemoteContext("gitlab.com", "project", "group")))),
     Some(Template("Custom:conf.tera", None))}

\* Template::from_arg: the template named on the command line, or an error
\* for a template file that cannot be read.
from_arg(name, context) ==
    CASE name = "remote" -> Some(Template("Remote", context))
      [] name = "full_hash" -> Some(Template("FullHash", context))
      [] name = "default" -> Some(Template("Default", context))
      [] name = "missing.tera" -> None
      [] OTHER -> Some(Template("Custom:" \o name, context))

\* let context = if template == "remote" { ... } else { None };
\* each expect() panics on a None.
ContextOf(c) ==
    IF Unwrap(c.template) = "remote"
    THEN IF IsSome(c.remote) /\ IsSome(c.repository) /\ IsSome(c.owner)
         THEN [panics |-> FALSE,
               context |-> Some(RemoteContext(Unwrap(c.remote),
                                              Unwrap(c.repository),
                                              Unwrap(c.owner)))]
         ELSE [panics |-> TRUE, context |-> None]
    ELSE [panics |-> FALSE, context |-> None]

\* SelectTemplate letting a configured template replace the one of the
\* command line.
SelectTemplate_SettingsFirst(c, fromSettings) ==
    IF IsSome(fromSettings) \/ ~IsSome(c.template)
    THEN [outcome |-> "ok", template |-> fromSettings]
    ELSE IF ContextOf(c).panics
    THEN [outcome |-> "panic", template |-> None]
    ELSE LET t == from_arg(Unwrap(c.template), ContextOf(c).context) IN
         IF IsSome(t) THEN [outcome |-> "ok", template |-> t]
         ELSE [outcome |-> "TemplateError", template |-> None]

\* let template = match template { None => ..., Some(template) => ... };
\* the Option<Template> before unwrap_or_default, or the failure.
SelectTemplate(c, fromSettings) ==
    IF ~IsSome(c.template)
    THEN [outcome |-> "ok", template |-> fromSettings]
    ELSE IF ContextOf(c).panics
    THEN [outcome |-> "panic", template |-> None]
    ELSE LET t == from_arg(Unwrap(c.template), ContextOf(c).context) IN
         IF IsSome(t) THEN [outcome |-> "ok", template |-> t]
         ELSE [outcome |-> "TemplateError", template |-> None]

\* template.unwrap_or_default()
UnwrapOrDefault(t) == IF IsSome(t) THEN Unwrap(t) ELSE DefaultTemplate

\* render: the document, or the fatal error of a Remote template that has no
\* remote context.
Document(t) == [rendered_with |-> t.kind, links |-> t.context]

render(t) ==
    IF t.kind = "Remote" /\ ~IsSome(t.context) THEN None
    ELSE Some(Document(t))

\* Cli::from_args() for `cog changelog`.
ParseChangelog ==
    /\ pc = "start"
    /\ \E c \in ChangelogArgs :
          /\ ChangelogArgsAccepted(c)
          /\ cli' = c
    /\ pc' = "changelog_get"
    /\ UNCHANGED <<exit, stdout, bumpVars, verifyVars, logVars, content, changelogVars>>

\* let cocogitto = CocoGitto::get()?;
ChangelogGet ==
    /\ pc = "changelog_get"
    /\ \E ok \in BOOLEAN :
          IF ok THEN pc' = "changelog_template" /\ UNCHANGED exit
          ELSE Fail("RepositoryError")
    /\ UNCHANGED <<cli, stdout, bumpVars, verifyVars, logVars, content, changelogVars>>

\* let template = match template { ... }; let template = template.unwrap_or_default();
ChangelogTemplate ==
    /\ pc = "changelog_template"
    /\ \E fromSettings \in SettingsTemplates :
          LET sel == SelectTemplate(cli, fromSettings) IN
          /\ settings' = IF IsSome(cli.template) THEN None ELSE Some(fromSettings)
          /\ IF sel.outcome = "ok"
             THEN /\ template' = Some(UnwrapOrDefault(sel.template))
                  /\ pc' = "changelog_retrieve"
                  /\ UNCHANGED exit
             ELSE /\ UNCHANGED template
                  /\ Fail(sel.outcome)
    /\ UNCHANGED <<cli, stdout, bumpVars, verifyVars, logVars, content>>

\* let result = match at { Some(at) => get_changelog_at_tag(&at, template)?,
\*     None => { let changelog = get_changelog(pattern.unwrap_or_default(), true)?;
\* first half: the commits of the tag or of the range are retrieved.
ChangelogRetrieve ==
    /\ pc = "changelog_retrieve"
    /\ \E retrieved \in BOOLEAN :
          IF retrieved THEN pc' = "changelog_render" /\ UNCHANGED exit
          ELSE Fail("ChangelogError")
    /\ UNCHANGED <<cli, stdout, bumpVars, verifyVars, logVars, content, changelogVars>>

\* ChangelogRender writing the text out while it renders, so that a failure
\* leaves part of it on the output.
ChangelogRender_StreamsOutput ==
    /\ pc = "changelog_render"
    /\ \E compiles \in BOOLEAN :
          LET t == Unwrap(template)
              doc == render(t)
          IN IF ~IsSome(doc)
             THEN Fail("MissingRemoteContext") /\ UNCHANGED <<content, stdout>>
             ELSE IF t.kind \in CustomKinds /\ ~compiles
             THEN /\ Fail("TemplateError")
                  /\ stdout' = Some([partial |-> TRUE])
                  /\ UNCHANGED content
             ELSE /\ content' = doc /\ pc' = "changelog_print"
                  /\ UNCHANGED <<exit, stdout>>
    /\ UNCHANGED <<cli, bumpVars, verifyVars, logVars, changelogVars>>

\* second half: changelog.into_markdown(template)? (inside
\* get_changelog_at_tag for a tag).  A custom template may not compile.
ChangelogRender ==
    /\ pc = "changelog_render"
    /\ \E compiles \in BOOLEAN :
          LET t == Unwrap(template)
              doc == render(t)
          IN IF ~IsSome(doc)
             THEN Fail("MissingRemoteContext") /\ UNCHANGED content
             ELSE IF t.kind \in CustomKinds /\ ~compiles
             THEN Fail("TemplateError") /\ UNCHANGED content
             ELSE content' = doc /\ pc' = "changelog_print" /\ UNCHANGED exit
    /\ UNCHANGED <<cli, stdout, bumpVars, verifyVars, logVars, changelogVars>>

\* println!("{}", result);
ChangelogPrint ==
    /\ pc = "changelog_print"
    /\ stdout' = content
    /\ pc' = "done"
    /\ exit' = "ok"
    /\ UNCHANGED <<cli, bumpVars, verifyVars, logVars, content, changelogVars>>

Next ==
    \/ ParseBump
    \/ BumpGet
    \/ BumpSelect
    \/ BumpCreateVersion
    \/ ParseVerify
    \/ VerifyAuthor
    \/ VerifyMessage
    \/ ParseLog
    \/ LogGet
    \/ LogOutput
    \/ LogFilters
    \/ LogGetLog
    \/ LogWrite
    \/ ParseChangelog
    \/ ChangelogGet
    \/ ChangelogTemplate
    \/ ChangelogRetrieve
    \/ ChangelogRender
    \/ ChangelogPrint

Spec == Init /\ [][Next]_vars

(***************************************************************************)
(* Properties                                                              *)
(***************************************************************************)
BumpDone == pc = "done" /\ cli.cmd = "Bump"
BumpSelected == cli.cmd = "Bump" /\ increment.tag # "unset"
AnyBreaking == \E i \in DOMAIN records : records[i].breaking
AnyFeat == \E i \in DOMAIN records : records[i].commit_type = "feat"
AnyFixOrPerf == \E i \in DOMAIN records : records[i].commit_type \in {"fix", "perf"}

\* C1: a bump asked for with --auto and no explicit version is decided by
\* the commit records alone: a major bump if a record is breaking, else a
\* minor bump if a record is a feat, else a patch bump if a record is a fix or
\* a perf, else NoApplicableCommits (the empty sequence included), wherever
\* the records stand in the sequence.
C1_AutoBumpFollowsPrecedence ==
    (BumpDone /\ ~IsSome(cli.version) /\ cli.auto /\ IsSome(current)) =>
        LET cur == Unwrap(current) IN
        decision =
            IF AnyBreaking
            THEN Bump(V(cur.major + 1, 0, 0, "", ""))
            ELSE IF AnyFeat
            THEN Bump(V(cur.major, cur.minor + 1, 0, "", ""))
            ELSE IF AnyFixOrPerf
            THEN Bump(V(cur.major, cur.minor, cur.patch + 1, "", ""))
            ELSE NoApplicableCommits

C1_Witness ==
    /\ BumpDone /\ ~IsSome(cli.version) /\ cli.auto
    /\ current = Some(V(1, 2, 3, "", ""))
    /\ records = <<[commit_type |-> "fix", breaking |-> FALSE],
                   [commit_type |-> "feat", breaking |-> FALSE]>>
    /\ decision = Bump(V(1, 3, 0, "", ""))

\* C2: when bump is given a manual target (--version, --major, --minor or
\* --patch), the increment handed to create_version is a manual one, never
\* the automatic one.
C2_ManualTargetIsUsed ==
    (BumpSelected /\ (IsSome(cli.version) \/ cli.major \/ cli.minor \/ cli.patch))
        => increment.tag \in {"Manual", "Major", "Minor", "Patch"}

C10_IncrementByPriority ==
    /\ cli.cmd = "Bump" => exit # "panic"
    /\ BumpSelected =>
         increment =
            CASE IsSome(cli.version) -> Manual(Unwrap(cli.version))
              [] ~IsSome(cli.version) /\ cli.auto -> Auto
              [] ~IsSome(cli.version) /\ ~cli.auto /\ cli.major -> Major
              [] ~IsSome(cli.version) /\ ~cli.auto /\ ~cli.major /\ cli.minor
                   -> Minor
              [] ~IsSome(cli.version) /\ ~cli.auto /\ ~cli.major /\ ~cli.minor
                   /\ cli.patch -> Patch

C10_Witness ==
    /\ BumpSelected /\ ~IsSome(cli.version) /\ ~cli.auto /\ ~cli.major
    /\ cli.minor /\ cli.patch
    /\ increment = Minor

LogComputed == cli.cmd = "Log" /\ IsSome(content)
Given(arg) == IsSome(arg) /\ Unwrap(arg) # <<>>

\* The record predicate the arguments of the log command stand for.
KeptByArgs(c, e) ==
    /\ IsRecord(e)
    /\ Given(c.typ) =>
          \E t \in Range(Unwrap(c.typ)) : e.commit_type = CommitTypeFrom(t)
    /\ Given(c.scope) => \E sc \in Range(Unwrap(c.scope)) : e.scope = Some(sc)
    /\ Given(c.author) => e.author \in Range(Unwrap(c.author))
    /\ c.breaking_change => e.breaking

\* C4: the records of the log output are the subsequence of the input, in
\* input order, of exactly the records that satisfy every kind of predicate
\* given (type, scope, author, breaking), the values of one kind being
\* alternatives; with no predicate given every record passes.
C4_LogKeepsMatchingRecords ==
    LogComputed =>
        Unwrap(content).records =
            SelectSeq(commits, LAMBDA e : KeptByArgs(cli, e))

C4_Witness ==
    /\ LogComputed
    /\ cli.typ = Some(<<"fix", "chore">>) /\ cli.scope = Some(<<"cli", "api">>)
    /\ Len(SelectSeq(commits, IsRecord)) = 2
    /\ Len(Unwrap(content).records) = 1

\* C5 as first stated: no_error does not change which records are kept, only
\* whether violations are reported, and it is not placed among the filtering
\* predicates.
C5_NoErrorOutsideFilters ==
    /\ LogComputed =>
         Unwrap(content).records =
            get_log(commits, BuildFilters([cli EXCEPT !.no_error = ~@])).records
    /\ (cli.cmd = "Log" /\ pc \in {"log_get_log", "log_write", "done"}) =>
         NoError \notin Range(filters)

\* C5: no_error does not change which records are kept or their order; it
\* only decides whether the violations are reported; it travels to get_log
\* in the list of filters, as CommitFilter::NoError, exactly when it is given.
C5_NoErrorOnlySilencesViolations ==
    /\ LogComputed =>
         /\ Unwrap(content).records =
              get_log(commits, BuildFilters([cli EXCEPT !.no_error = ~@])).records
         /\ Unwrap(content).violations =
              IF cli.no_error THEN <<>> ELSE SelectSeq(commits, IsViolation)
    /\ (cli.cmd = "Log" /\ pc \in {"log_get_log", "log_write"}) =>
         (cli.no_error <=> NoError \in Range(filters))

C5_Witness ==
    /\ LogComputed /\ cli.no_error
    /\ \E i \in DOMAIN commits : IsViolation(commits[i])
    /\ Unwrap(content).records # <<>>
    /\ Unwrap(content).violations = <<>>

IsChangelog == cli.cmd = "Changelog"

\* The Remote template is selected: on the command line, or by the
\* configuration when the command line names no template.
RemoteFromArg == IsChangelog /\ cli.template = Some("remote")
RemoteFromSettings ==
    /\ IsChangelog /\ ~IsSome(cli.template) /\ IsSome(settings)
    /\ IsSome(Unwrap(settings)) /\ Unwrap(Unwrap(settings)).kind = "Remote"
RemoteSelected == RemoteFromArg \/ RemoteFromSettings
RemoteContextGiven ==
    IF RemoteFromArg
    THEN IsSome(cli.remote) /\ IsSome(cli.owner) /\ IsSome(cli.repository)
    ELSE IsSome(Unwrap(Unwrap(settings)).context)

\* C6: a changelog rendered with the Remote template has a remote context,
\* with a host, an owner and a repository; when the Remote template is
\* selected, by the command line or by the configuration, without a remote
\* context, rendering fails with MissingRemoteContext and there is no
\* document.
C6_RemoteNeedsContext ==
    /\ (IsChangelog /\ IsSome(content)
          /\ Unwrap(content).rendered_with = "Remote") =>
         /\ IsSome(Unwrap(content).links)
         /\ DOMAIN Unwrap(Unwrap(content).links)
              = {"remote", "owner", "repository"}
    /\ (pc = "done" /\ RemoteSelected /\ ~RemoteContextGiven
          /\ exit \notin {"RepositoryError", "ChangelogError"}) =>
         exit = "MissingRemoteContext" /\ content = None /\ stdout = None

C6_Witness ==
    /\ pc = "done" /\ RemoteFromSettings /\ ~RemoteContextGiven
    /\ exit = "MissingRemoteContext" /\ stdout = None

\* C7: the changelog template is the one named on the command line if there
\* is one, else the configured one if there is one, else the default; the
\* remote, repository and owner arguments become a remote context only for
\* the command line template 'remote'.
C7_TemplateFallback ==
    (IsChangelog /\ IsSome(template)) =>
        IF IsSome(cli.template)
        THEN Some(Unwrap(template)) =
               from_arg(Unwrap(cli.template),
                        IF cli.template = Some("remote")
                        THEN Some([remote |-> Unwrap(cli.remote),
                                   repository |-> Unwrap(cli.repository),
                                   owner |-> Unwrap(cli.owner)])
                        ELSE None)
        ELSE IF IsSome(Unwrap(settings))
        THEN template = Unwrap(settings)
        ELSE template = Some(DefaultTemplate)

C7_Witness ==
    /\ IsChangelog /\ cli.template = Some("full_hash")
    /\ IsSome(cli.remote) /\ IsSome(cli.owner) /\ IsSome(cli.repository)
    /\ template = Some(Template("FullHash", None))

ComputeErrors ==
    {"RepositoryError", "OutputError", "LogError", "TemplateError",
     "ChangelogError", "MissingRemoteContext", "BumpError", "InvalidVersion",
     "NoApplicableCommits", "panic"}

\* C8: in bump, changelog and log a failing step ends the command with the
\* error and with nothing written and no version created; what is written is
\* the result, computed whole before the write starts.
C8_AllOrNothing ==
    /\ (pc = "done" /\ exit \in ComputeErrors) =>
         stdout = None /\ newVersion = None
    /\ IsSome(stdout) =>
         /\ IsSome(content)
         /\ stdout = content \/ (cli.cmd = "Log" /\ exit = "WriteError")
    /\ IsSome(newVersion) => exit = "ok" /\ decision.kind = "Bump"

C8_Witness ==
    /\ pc = "done" /\ IsChangelog /\ exit = "TemplateError"
    /\ IsSome(template) /\ stdout = None

\* C9: verifying one message never panics: it ends with exactly one of a
\* record (success) or a violation (error), with or without a repository
\* and a committer.
C9_VerifyNeverPanics ==
    (pc = "done" /\ cli.cmd = "Verify") =>
        /\ exit # "panic"
        /\ IsSome(verified)
        /\ Unwrap(verified).kind \in {"record", "violation"}
        /\ exit = "ok" <=> Unwrap(verified).kind = "record"

=============================================================================
